---------------------------- MODULE Spec2Model ----------------------------
(***************************************************************************)
(* A model of gdpr/utils.py: the two pagination generators, the reflective *)
(* lookups, the dotted-path resolver, the digit-count helper and the       *)
(* parent/version collectors.  Every function of the file is independent   *)
(* of the others (no shared state), so each has its own record variable    *)
(* and its own specification; the variables of the functions that are not  *)
(* running stay at Idle.                                                   *)
(***************************************************************************)
EXTENDS Integers, Sequences, FiniteSets

VARIABLES cq, ci, par, fld, cls, num

vars == <<cq, ci, par, fld, cls, num>>

Idle == [pc |-> "idle"]

(***************************************************************************)
(* Bounds of the model.                                                    *)
(***************************************************************************)
MaxKey == 4        \* largest primary key of a record
NegKeys == 1       \* primary keys go down to -NegKeys (0 and negatives included)
MaxChunk == 3      \* chunk_size ranges over 1..MaxChunk
MaxItems == 4      \* longest slice-able sequence given to chunked_iterator
MaxPathLen == 2    \* longest chain of join fields from an object to a parent
MaxParents == 2    \* longest parent list of a model
MaxVersions == 1   \* most versions the store holds for one object
MaxLen == 5        \* longest dotted path given to str_to_class
MaxTenths == 1200  \* get_number_guess_len is given values n/10, |n| <= MaxTenths

Keys == (0 - NegKeys)..MaxKey
ChunkSizes == 1..MaxChunk
Items == {"x", "y"}

(***************************************************************************)
(* Helpers standing for the ORM's ordered collections.                     *)
(***************************************************************************)
SetMax(S) == CHOOSE m \in S : \A x \in S : x <= m
SetMin(S) == CHOOSE m \in S : \A x \in S : m <= x

RECURSIVE OrderBy(_)
\* queryset.order_by('pk'): the records (their keys) in ascending key order.
OrderBy(S) == IF S = {} THEN <<>> ELSE <<SetMin(S)>> \o OrderBy(S \ {SetMin(S)})

\* queryset.filter(pk__gt=start_pk)
FilterGt(qs, start) == {p \in qs : p > start}

\* queryset.filter(pk__gt=start_pk).filter(pk__lte=end_pk)
FilterGtLte(qs, start, end) == {p \in qs : p > start /\ p <= end}

\* A variant that indexes one record too far.
EndPk_OffByOne(qs, start, size) ==
    IF Cardinality(FilterGt(qs, start)) >= size + 1
    THEN OrderBy(FilterGt(qs, start))[size + 1]
    ELSE SetMax(qs)

\* A variant whose fallback takes the first key of the queryset, not the last.
EndPk_First(qs, start, size) ==
    IF Cardinality(FilterGt(qs, start)) >= size
    THEN OrderBy(FilterGt(qs, start))[size]
    ELSE SetMin(qs)

\* The try/except of lines 40-48: the key at index chunk_size - 1 of the
\* records above the cursor, or, on IndexError, the last key of the whole
\* ordered queryset.
EndPk(qs, start, size) ==
    IF Cardinality(FilterGt(qs, start)) >= size
    THEN OrderBy(FilterGt(qs, start))[size]
    ELSE SetMax(qs)

(***************************************************************************)
(* chunked_queryset(queryset, chunk_size)                                  *)
(***************************************************************************)
\* A variant whose cursor starts below every key.
InitialStartPk_BelowAll == 0 - NegKeys - 1

\* Line 32: the cursor's first value.
InitialStartPk == 0

\* The generator right after its first next(): start_pk = 0, nothing yielded.
CQInit ==
    /\ ci = Idle /\ par = Idle /\ fld = Idle /\ cls = Idle /\ num = Idle
    /\ \E qs \in SUBSET Keys, size \in ChunkSizes :
           cq = [pc |-> "loop", queryset |-> qs, chunk_size |-> size,
                 start_pk |-> InitialStartPk, end_pk |-> InitialStartPk,
                 chunks |-> <<>>]

\* Line 37-38: no record above the cursor, the generator ends.
CQBreak ==
    /\ cq.pc = "loop"
    /\ FilterGt(cq.queryset, cq.start_pk) = {}
    /\ cq' = [cq EXCEPT !.pc = "done"]
    /\ UNCHANGED <<ci, par, fld, cls, num>>

\* Lines 40-50: compute end_pk and yield the chunk.
CQYield ==
    /\ cq.pc = "loop"
    /\ FilterGt(cq.queryset, cq.start_pk) # {}
    /\ LET e == EndPk(cq.queryset, cq.start_pk, cq.chunk_size)
       IN cq' = [cq EXCEPT !.pc = "yielded", !.end_pk = e,
                    !.chunks = Append(@, OrderBy(FilterGtLte(cq.queryset, cq.start_pk, e)))]
    /\ UNCHANGED <<ci, par, fld, cls, num>>

\* Line 52: the consumer resumes the generator, the cursor moves.
CQResume ==
    /\ cq.pc = "yielded"
    /\ cq' = [cq EXCEPT !.pc = "loop", !.start_pk = cq.end_pk]
    /\ UNCHANGED <<ci, par, fld, cls, num>>

CQNext == CQBreak \/ CQYield \/ CQResume

SpecCQ == CQInit /\ [][CQNext]_vars
\* The consumer drains the generator: every enabled step is eventually taken.
FairSpecCQ == SpecCQ /\ WF_vars(CQNext)

(***************************************************************************)
(* chunked_iterator(iterable, chunk_size)                                  *)
(***************************************************************************)
RECURSIVE SeqsUpTo(_, _)
SeqsUpTo(S, n) ==
    IF n = 0 THEN {<<>>}
    ELSE LET shorter == SeqsUpTo(S, n - 1)
         IN shorter \cup {Append(s, x) : s \in {t \in shorter : Len(t) = n - 1}, x \in S}

\* Python's iterable[start:stop] on a sequence, 0-based, clipped to its length.
Slice(s, start, stop) ==
    SubSeq(s, start + 1, IF stop < Len(s) THEN stop ELSE Len(s))

\* A variant that also stops on a full page.
IsLastPage_Lte(chunk, size) == Len(chunk) <= size

\* Line 25: the last page is the one shorter than chunk_size.
IsLastPage(chunk, size) == Len(chunk) < size

CIInit ==
    /\ cq = Idle /\ par = Idle /\ fld = Idle /\ cls = Idle /\ num = Idle
    /\ \E s \in SeqsUpTo(Items, MaxItems), size \in ChunkSizes :
           ci = [pc |-> "fetch", iterable |-> s, chunk_size |-> size, i |-> 0,
                 chunk |-> <<>>, j |-> 0, yielded |-> <<>>, slices |-> <<>>]

\* Lines 17-20: next i, fetch the slice.
CIFetch ==
    /\ ci.pc = "fetch"
    /\ LET start == ci.i * ci.chunk_size
           c == Slice(ci.iterable, start, start + ci.chunk_size)
       IN ci' = [ci EXCEPT !.pc = "items", !.chunk = c, !.j = 0,
                    !.slices = Append(@, [start |-> start,
                                          stop |-> start + ci.chunk_size,
                                          len |-> Len(c)])]
    /\ UNCHANGED <<cq, par, fld, cls, num>>

\* Lines 22-23: yield the next item of the chunk.
CIYieldItem ==
    /\ ci.pc = "items"
    /\ ci.j < Len(ci.chunk)
    /\ ci' = [ci EXCEPT !.j = @ + 1, !.yielded = Append(@, ci.chunk[ci.j + 1])]
    /\ UNCHANGED <<cq, par, fld, cls, num>>

\* Lines 25-26: after the chunk, stop on a short page, else go on with i + 1.
CICheck ==
    /\ ci.pc = "items"
    /\ ci.j = Len(ci.chunk)
    /\ ci' = IF IsLastPage(ci.chunk, ci.chunk_size)
             THEN [ci EXCEPT !.pc = "done"]
             ELSE [ci EXCEPT !.pc = "fetch", !.i = @ + 1]
    /\ UNCHANGED <<cq, par, fld, cls, num>>

CINext == CIFetch \/ CIYieldItem \/ CICheck

SpecCI == CIInit /\ [][CINext]_vars


(***************************************************************************)
(* get_all_parent_objects(obj), get_all_obj_and_parent_versions(obj)       *)
(*                                                                         *)
(* An instance is named by the chain of join fields that leads to it from  *)
(* obj: Inst(<<>>) is obj itself.  attrs says what reading a join field on *)
(* an instance gives: another instance, None, or no such attribute.        *)
(***************************************************************************)
FieldNames == {"a", "b"}
None == [none |-> TRUE]
Inst(path) == [path |-> path]
AttrStates == {"instance", "none", "missing"}

\* getattr(parent_obj, path, None), line 159: None has no join field, a missing
\* attribute gives the default.
GetAttr(attrs, o, name) ==
    IF o = None THEN None
    ELSE IF attrs[name] = "instance" THEN Inst(Append(o.path, name))
    ELSE None

RECURSIVE FollowPath_FromObj(_, _, _)
\* A variant that reads every join field on obj instead of on the instance
\* reached so far.
FollowPath_FromObj(attrs, o, path) ==
    IF path = <<>> THEN o
    ELSE IF Len(path) = 1 THEN GetAttr(attrs, o, path[1])
    ELSE LET rest == FollowPath_FromObj(attrs, o, Tail(path))
         IN IF rest = None THEN None ELSE GetAttr(attrs, o, path[Len(path)])

RECURSIVE FollowPath(_, _, _)
\* Lines 157-159: the inner loop over one parent path.
FollowPath(attrs, o, path) ==
    IF path = <<>> THEN o
    ELSE FollowPath(attrs, GetAttr(attrs, o, Head(path)), Tail(path))

\* A variant that keeps the unresolved parents.
NotNone_KeepAll(objects) == objects

\* Line 162: [i for i in parent_objects if i is not None]
NotNone(objects) == SelectSeq(objects, LAMBDA o : o # None)

\* get_reversion_versions(obj), lines 116-120: the store's versions of obj, in
\* the store's order.
GetReversionVersions(store, o) ==
    [n \in 1..store[IF o = Inst(<<>>) THEN "obj" ELSE "parent"] |->
        [object |-> o, revision |-> n]]

\* A variant that puts the object's own versions first.
QuerysetList_ObjFirst(store, parents, o) ==
    <<GetReversionVersions(store, o)>>
        \o [n \in 1..Len(parents) |-> GetReversionVersions(store, parents[n])]

\* Lines 169-171: the parents' version querysets, then the object's own.
QuerysetList(store, parents, o) ==
    [n \in 1..Len(parents) |-> GetReversionVersions(store, parents[n])]
        \o <<GetReversionVersions(store, o)>>

RECURSIVE FlattenList(_)
\* Lines 176-180: [item for sublist in ... for item in sublist]
FlattenList(lists) ==
    IF lists = <<>> THEN <<>> ELSE Head(lists) \o FlattenList(Tail(lists))

Paths == SeqsUpTo(FieldNames, MaxPathLen)

\* Lines 147-153 have run: parent_paths holds one chain of join-field names for
\* each model of the parent list.
ParInit ==
    /\ cq = Idle /\ ci = Idle /\ fld = Idle /\ cls = Idle /\ num = Idle
    /\ \E attrs \in [FieldNames -> AttrStates],
          paths \in SeqsUpTo(Paths, MaxParents),
          store \in [{"obj", "parent"} -> 0..MaxVersions] :
           par = [pc |-> "loop", attrs |-> attrs, parent_paths |-> paths,
                  store |-> store, parent_objects |-> <<>>, parents |-> <<>>,
                  querysets |-> <<>>, versions |-> <<>>]

\* Lines 156-160: one iteration of the outer loop.
ParResolve ==
    /\ par.pc = "loop"
    /\ Len(par.parent_objects) < Len(par.parent_paths)
    /\ par' = [par EXCEPT !.parent_objects =
                  Append(@, FollowPath(par.attrs, Inst(<<>>),
                                       par.parent_paths[Len(par.parent_objects) + 1]))]
    /\ UNCHANGED <<cq, ci, fld, cls, num>>

\* Line 162: get_all_parent_objects returns.
ParReturn ==
    /\ par.pc = "loop"
    /\ Len(par.parent_objects) = Len(par.parent_paths)
    /\ par' = [par EXCEPT !.pc = "parents", !.parents = NotNone(par.parent_objects)]
    /\ UNCHANGED <<cq, ci, fld, cls, num>>

\* Lines 169-171: get_all_obj_and_parent_versions_queryset_list returns.
ParQuerysets ==
    /\ par.pc = "parents"
    /\ par' = [par EXCEPT !.pc = "querysets",
                  !.querysets = QuerysetList(par.store, par.parents, Inst(<<>>))]
    /\ UNCHANGED <<cq, ci, fld, cls, num>>

\* Lines 176-180: get_all_obj_and_parent_versions returns.
ParVersions ==
    /\ par.pc = "querysets"
    /\ par' = [par EXCEPT !.pc = "done", !.versions = FlattenList(par.querysets)]
    /\ UNCHANGED <<cq, ci, fld, cls, num>>

ParNext == ParResolve \/ ParReturn \/ ParQuerysets \/ ParVersions

SpecPar == ParInit /\ [][ParNext]_vars

(***************************************************************************)
(* get_field_or_none(model, field_name)                                    *)
(***************************************************************************)
ModelFieldNames == {"id", "name", "email"}
AskedFieldNames == ModelFieldNames \cup {"nope"}
\* What the catalog lookup can raise besides FieldDoesNotExist.
OtherFailures == {"AttributeError", "TypeError"}

Return(v) == [kind |-> "return", value |-> v]
Raise(e, where) == [kind |-> "raise", exc |-> e, from |-> where]

\* model._meta.get_field(field_name), line 106: the field descriptor, the
\* catalog's FieldDoesNotExist, or another failure of the lookup.
MetaGetField(fields, failure, name) ==
    IF failure # "none" THEN Raise(failure, "get_field")
    ELSE IF name \in fields THEN Return([field |-> name])
    ELSE Raise("FieldDoesNotExist", "get_field")

\* A variant that swallows every failure of the lookup.
GetFieldOrNone_CatchAll(fields, failure, name) ==
    LET got == MetaGetField(fields, failure, name)
    IN IF got.kind = "raise" THEN Return(None) ELSE got

\* Lines 105-108: the try/except around the lookup.
GetFieldOrNone(fields, failure, name) ==
    LET got == MetaGetField(fields, failure, name)
    IN IF got.kind = "raise" /\ got.exc = "FieldDoesNotExist"
       THEN Return(None) ELSE got

FldInit ==
    /\ cq = Idle /\ ci = Idle /\ par = Idle /\ cls = Idle /\ num = Idle
    /\ \E fields \in SUBSET ModelFieldNames,
          failure \in {"none"} \cup OtherFailures,
          name \in AskedFieldNames :
           fld = [pc |-> "call", fields |-> fields, failure |-> failure,
                  field_name |-> name, outcome |-> Return(None)]

FldCall ==
    /\ fld.pc = "call"
    /\ fld' = [fld EXCEPT !.pc = "done",
                  !.outcome = GetFieldOrNone(fld.fields, fld.failure, fld.field_name)]
    /\ UNCHANGED <<cq, ci, par, cls, num>>

SpecFld == FldInit /\ [][FldCall]_vars

(***************************************************************************)
(* str_to_class(class_string)                                              *)
(*                                                                         *)
(* A string is a sequence of characters.  modules maps the name of every   *)
(* module that can be loaded to the names bound in it.                     *)
(***************************************************************************)
Chars == {"a", "b", "."}
ModuleNames == {<<"a">>, <<"a", ".", "b">>}
AttrNames == {<<"a">>, <<"b">>}

HasDot(s) == \E n \in 1..Len(s) : s[n] = "."
LastDot(s) == CHOOSE n \in 1..Len(s) : s[n] = "." /\ \A m \in (n + 1)..Len(s) : s[m] # "."
FirstDot(s) == CHOOSE n \in 1..Len(s) : s[n] = "." /\ \A m \in 1..(n - 1) : s[m] # "."

\* A variant that splits at the first dot.
RSplit_First(s) ==
    IF HasDot(s)
    THEN <<SubSeq(s, 1, FirstDot(s) - 1), SubSeq(s, FirstDot(s) + 1, Len(s))>>
    ELSE <<s>>

\* class_string.rsplit('.', 1), line 72: one part when there is no dot.
RSplit(s) ==
    IF HasDot(s)
    THEN <<SubSeq(s, 1, LastDot(s) - 1), SubSeq(s, LastDot(s) + 1, Len(s))>>
    ELSE <<s>>

\* __import__(module_name, globals(), locals(), [class_name]), line 74: the
\* module named module_name; a name of the from-list that the module does not
\* bind and that names a loadable submodule is bound to that submodule.
Import(modules, module_name, class_name) ==
    IF module_name = <<>> THEN Raise("ValueError", "__import__")
    ELSE IF module_name \notin DOMAIN modules THEN Raise("ImportError", "__import__")
    ELSE Return([name |-> module_name,
                 bound |-> modules[module_name],
                 submodules |-> IF (module_name \o <<".">> \o class_name) \in DOMAIN modules
                                THEN {class_name} ELSE {}])

\* getattr(m, class_name), line 76.
GetClassAttr(m, class_name) ==
    IF class_name \in m.bound THEN Return([module |-> m.name, attr |-> class_name])
    ELSE IF class_name \in m.submodules
         THEN Return([module |-> m.name \o <<".">> \o class_name])
    ELSE Raise("AttributeError", "getattr")

\* Lines 72-77.
StrToClass(modules, class_string) ==
    LET parts == RSplit(class_string)
    IN IF Len(parts) # 2 THEN Raise("ValueError", "unpack")
       ELSE LET m == Import(modules, parts[1], parts[2])
            IN IF m.kind = "raise" THEN m
               ELSE GetClassAttr(m.value, parts[2])

ModuleTables ==
    {f \in UNION {[D -> SUBSET AttrNames] : D \in SUBSET ModuleNames} :
        \* a submodule can be loaded only with its package
        <<"a", ".", "b">> \in DOMAIN f => <<"a">> \in DOMAIN f}

ClsInit ==
    /\ cq = Idle /\ ci = Idle /\ par = Idle /\ fld = Idle /\ num = Idle
    /\ \E modules \in ModuleTables, s \in SeqsUpTo(Chars, MaxLen) :
           cls = [pc |-> "call", modules |-> modules, class_string |-> s,
                  outcome |-> Return(None)]

ClsCall ==
    /\ cls.pc = "call"
    /\ cls' = [cls EXCEPT !.pc = "done",
                  !.outcome = StrToClass(cls.modules, cls.class_string)]
    /\ UNCHANGED <<cq, ci, par, fld, num>>

SpecCls == ClsInit /\ [][ClsCall]_vars

(***************************************************************************)
(* get_number_guess_len(value)                                             *)
(*                                                                         *)
(* A value is a number of tenths, so that int(value) has something to cut. *)
(***************************************************************************)
\* int(value), line 89: truncation toward zero.
IntOf(tenths) == IF tenths >= 0 THEN tenths \div 10 ELSE 0 - ((0 - tenths) \div 10)

RECURSIVE Digits(_)
Digits(n) ==
    IF n < 10 THEN <<n>> ELSE Append(Digits(n \div 10), n % 10)

\* str(n), line 89: the decimal text, with a sign for a negative number.
Str(n) == IF n < 0 THEN <<"-">> \o Digits(0 - n) ELSE Digits(n)

\* Lines 89-90.
GetNumberGuessLen(tenths) ==
    LET guess_len == Len(Str(IntOf(tenths)))
    IN IF guess_len % 2 # 0 THEN guess_len ELSE guess_len - 1

NumInit ==
    /\ cq = Idle /\ ci = Idle /\ par = Idle /\ fld = Idle /\ cls = Idle
    /\ \E v \in (0 - MaxTenths)..MaxTenths :
           num = [pc |-> "call", value |-> v, result |-> 0]

NumCall ==
    /\ num.pc = "call"
    /\ num' = [num EXCEPT !.pc = "done", !.result = GetNumberGuessLen(num.value)]
    /\ UNCHANGED <<cq, ci, par, fld, cls>>

SpecNum == NumInit /\ [][NumCall]_vars

(***************************************************************************)
(* Properties of chunked_queryset.                                         *)
(***************************************************************************)
RECURSIVE Flatten(_)
Flatten(ss) == IF ss = <<>> THEN <<>> ELSE Head(ss) \o Flatten(Tail(ss))

Last(s) == s[Len(s)]

\* The first n elements of s, or all of s when it is shorter.
Take(s, n) == SubSeq(s, 1, IF n < Len(s) THEN n ELSE Len(s))

\* The cursor in force when the k-th chunk was selected.
CursorBefore(k) == IF k = 1 THEN 0 ELSE Last(cq.chunks[k - 1])

\* C1: when the generator has ended, the chunks taken in yield order hold
\* every record of the collection exactly once, in ascending key order.
C1_EveryRecordOnceInKeyOrder ==
    cq.pc = "done" => Flatten(cq.chunks) = OrderBy(cq.queryset)

\* C8: every yielded chunk is non-empty and holds at most chunk_size records,
\* every chunk but the last one yielded holds exactly chunk_size records, and
\* each chunk is the next chunk_size records with key strictly greater than
\* the last-seen key.
C8_ChunkSizes ==
    cq.pc # "idle" =>
        \A k \in 1..Len(cq.chunks) :
            /\ Len(cq.chunks[k]) >= 1
            /\ Len(cq.chunks[k]) <= cq.chunk_size
            /\ k < Len(cq.chunks) => Len(cq.chunks[k]) = cq.chunk_size
            /\ cq.chunks[k] =
                   Take(OrderBy({p \in cq.queryset : p > CursorBefore(k)}),
                        cq.chunk_size)

\* A run that yielded a full chunk and then a shorter, last one.
C8_Witness ==
    /\ cq.pc = "done"
    /\ Len(cq.chunks) = 2
    /\ Len(cq.chunks[1]) = 2
    /\ Len(cq.chunks[2]) = 1

\* C9: on an unmodified collection the generator terminates: the cursor
\* strictly increases at every iteration, the new cursor being the largest
\* key of the chunk just yielded, and the generator ends at the first
\* iteration that finds no record above the cursor, yielding nothing there.
C9_CursorIncreasesAndTerminates ==
    /\ [][(cq.pc = "yielded" /\ cq'.pc = "loop") =>
             /\ cq'.start_pk > cq.start_pk
             /\ cq'.start_pk = Last(Last(cq.chunks))]_vars
    /\ [][(cq.pc = "loop" /\ {p \in cq.queryset : p > cq.start_pk} = {}) =>
             (cq'.pc = "done" /\ cq'.chunks = cq.chunks)]_vars
    /\ [][(cq.pc = "loop" /\ cq'.pc = "done") =>
             {p \in cq.queryset : p > cq.start_pk} = {}]_vars
    /\ <>(cq.pc = "done")

\* The generator ended after three iterations that yielded and one that did not.
C9_Witness ==
    /\ cq.pc = "done"
    /\ Len(cq.chunks) = 3
    /\ cq.start_pk = SetMax(cq.queryset)

\* C10: every record placed in a yielded chunk has a primary key greater
\* than 0; a record whose key is 0 or negative is in no chunk.
C10_OnlyPositiveKeysYielded ==
    cq.pc # "idle" =>
        \A k \in 1..Len(cq.chunks) : \A n \in 1..Len(cq.chunks[k]) :
            cq.chunks[k][n] > 0

\* A finished run over a collection that holds a record with key 0, a record
\* with a negative key, and positive ones.
C10_Witness ==
    /\ cq.pc = "done"
    /\ {0, -1} \subseteq cq.queryset
    /\ Len(cq.chunks) >= 1

(***************************************************************************)
(* Properties of chunked_iterator.                                         *)
(***************************************************************************)
IsPrefix(s, t) == Len(s) <= Len(t) /\ s = SubSeq(t, 1, Len(s))

\* C2: the items are yielded each once and in sequence order, fetched by the
\* slices [i*chunk_size, (i+1)*chunk_size) for i = 0, 1, 2, ...; only the last
\* slice requested is shorter than chunk_size, and the iterator stops there.
C2_IteratorYieldsSequenceBySlices ==
    ci.pc # "idle" =>
        /\ IsPrefix(ci.yielded, ci.iterable)
        /\ \A k \in 1..Len(ci.slices) :
              /\ ci.slices[k].start = (k - 1) * ci.chunk_size
              /\ ci.slices[k].stop = k * ci.chunk_size
              /\ k < Len(ci.slices) => ci.slices[k].len = ci.chunk_size
        /\ ci.pc = "done" =>
              /\ ci.yielded = ci.iterable
              /\ Last(ci.slices).len < ci.chunk_size
        /\ (ci.pc = "fetch" /\ ci.slices # <<>>) =>
              Last(ci.slices).len = ci.chunk_size

\* A finished run whose sequence length is a multiple of chunk_size: two full
\* slices and a last, empty one.
C2_Witness ==
    /\ ci.pc = "done"
    /\ Len(ci.iterable) = 4
    /\ ci.chunk_size = 2
    /\ Len(ci.slices) = 3
    /\ Last(ci.slices).len = 0

(***************************************************************************)
(* Properties of get_all_parent_objects and the version collectors.        *)
(***************************************************************************)
\* The whole chain resolves: every join field of it leads to an instance.
Resolves(attrs, path) == \A n \in 1..Len(path) : attrs[path[n]] = "instance"

\* The instances of the parents whose whole chain resolves, in parent-list order.
ResolvedParents ==
    LET ok == SelectSeq(par.parent_paths, LAMBDA p : Resolves(par.attrs, p))
    IN [n \in 1..Len(ok) |-> Inst(ok[n])]

\* C3: the parents are resolved by following each chain of join fields from
\* obj; a parent whose chain meets a missing attribute or a None link, at the
\* last step or before, is left out, so the result holds no None and exactly
\* the parents whose whole chain resolves, in parent-list order.
C3_ParentsAreTheResolvedChains ==
    /\ par.pc # "idle" =>
          \A k \in 1..Len(par.parent_objects) :
              par.parent_objects[k] =
                  IF Resolves(par.attrs, par.parent_paths[k])
                  THEN Inst(par.parent_paths[k]) ELSE None
    /\ par.pc \in {"parents", "querysets", "done"} =>
          /\ par.parents = ResolvedParents
          /\ \A k \in 1..Len(par.parents) : par.parents[k] # None

\* Two parents at the end of two-field chains: the first chain breaks at its
\* first field (a missing attribute), the second resolves.
C3_Witness ==
    /\ par.pc = "parents"
    /\ par.attrs = [a |-> "instance", b |-> "missing"]
    /\ par.parent_paths = <<(<<"b", "a">>), (<<"a", "a">>)>>
    /\ par.parents = <<Inst(<<"a", "a">>)>>

C5_FieldOrNoneOrOtherFailure ==
    fld.pc = "done" =>
        /\ (fld.failure = "none" /\ fld.field_name \in fld.fields) =>
              fld.outcome = [kind |-> "return", value |-> [field |-> fld.field_name]]
        /\ (fld.failure = "none" /\ fld.field_name \notin fld.fields) =>
              fld.outcome = [kind |-> "return", value |-> None]
        /\ fld.failure # "none" =>
              fld.outcome = [kind |-> "raise", exc |-> fld.failure, from |-> "get_field"]

\* A lookup of a name the model does not have, on a model that has fields.
C5_Witness ==
    /\ fld.pc = "done"
    /\ fld.failure = "none"
    /\ fld.fields = {"id", "name"}
    /\ fld.field_name = "nope"
    /\ fld.outcome.kind = "return"

(***************************************************************************)
(* Properties of str_to_class.                                             *)
(***************************************************************************)
\* What the path resolves to when split into module name m and attribute c.
Resolved(modules, m, c) ==
    IF m \notin DOMAIN modules THEN [ok |-> FALSE, why |-> "import"]
    ELSE IF c \in modules[m] THEN [ok |-> TRUE, value |-> [module |-> m, attr |-> c]]
    ELSE IF (m \o <<".">> \o c) \in DOMAIN modules
         THEN [ok |-> TRUE, value |-> [module |-> m \o <<".">> \o c]]
    ELSE [ok |-> FALSE, why |-> "attribute"]

\* The path holds a dot and n is the place of its last one.
IsLastDot(s, n) == s[n] = "." /\ \A k \in (n + 1)..Len(s) : s[k] # "."

\* The path is valid: split at its last dot, the module loads and binds the name.
ValidPath(modules, s) ==
    \E n \in 1..Len(s) :
        /\ IsLastDot(s, n)
        /\ Resolved(modules, SubSeq(s, 1, n - 1), SubSeq(s, n + 1, Len(s))).ok

\* C6 as stated: a valid path returns the attribute named after the last dot
\* of the module named before it, and every invalid path raises the import
\* failure or the attribute failure.
C6_InvalidPathRaisesImportOrAttributeFailure ==
    cls.pc = "done" =>
        /\ \A n \in 1..Len(cls.class_string) :
              LET r == Resolved(cls.modules, SubSeq(cls.class_string, 1, n - 1),
                                SubSeq(cls.class_string, n + 1, Len(cls.class_string)))
              IN (IsLastDot(cls.class_string, n) /\ r.ok) =>
                     cls.outcome = [kind |-> "return", value |-> r.value]
        /\ ~ValidPath(cls.modules, cls.class_string) =>
              /\ cls.outcome.kind = "raise"
              /\ \/ cls.outcome.from = "__import__"
                 \/ cls.outcome.from = "getattr" /\ cls.outcome.exc = "AttributeError"

\* C6, amended: a valid path returns the attribute named after the last dot of
\* the module named before it; an invalid path that holds a dot raises the
\* failure of the import when the module does not load, and else the
\* AttributeError of the attribute lookup; a path with no dot raises the
\* ValueError of the unpacking of the split, before any import.
C6_DottedPathRaisesImportOrAttributeFailure ==
    cls.pc = "done" =>
        /\ \A n \in 1..Len(cls.class_string) :
              LET m == SubSeq(cls.class_string, 1, n - 1)
                  c == SubSeq(cls.class_string, n + 1, Len(cls.class_string))
                  r == Resolved(cls.modules, m, c)
              IN IsLastDot(cls.class_string, n) =>
                     cls.outcome =
                         IF r.ok THEN [kind |-> "return", value |-> r.value]
                         ELSE IF r.why = "attribute"
                              THEN [kind |-> "raise", exc |-> "AttributeError",
                                    from |-> "getattr"]
                         ELSE [kind |-> "raise",
                               exc |-> IF m = <<>> THEN "ValueError" ELSE "ImportError",
                               from |-> "__import__"]
        /\ (\A n \in 1..Len(cls.class_string) : cls.class_string[n] # ".") =>
              cls.outcome = [kind |-> "raise", exc |-> "ValueError", from |-> "unpack"]

\* The path a.b.a, with a.b a module that binds a: the split is at the last dot.
C6_Witness ==
    /\ cls.pc = "done"
    /\ cls.class_string = <<"a", ".", "b", ".", "a">>
    /\ cls.outcome = [kind |-> "return",
                      value |-> [module |-> <<"a", ".", "b">>, attr |-> <<"a">>]]

(***************************************************************************)
(* Properties of get_number_guess_len.                                     *)
(***************************************************************************)
\* C7: the result is an even number, and it is the count of characters of the
\* decimal text of int(value) or that count minus one.
C7_ResultIsEvenLength ==
    num.pc = "done" =>
        /\ num.result % 2 = 0
        /\ \/ num.result = Len(Str(IntOf(num.value)))
           \/ num.result = Len(Str(IntOf(num.value))) - 1

=============================================================================
